---------------------------- MODULE Spec2Model ----------------------------
(***************************************************************************)
(* Model of tzconverter: the in-memory Selection Store of main.py with its *)
(* three mutating request handlers and its two grid views, and the pure    *)
(* functions of timezones.py (preferred-hours predicate, viability scorer, *)
(* slot generator).                                                        *)
(*                                                                         *)
(* Representation choices:                                                 *)
(*  - a Python dict is a TLA+ function whose DOMAIN is the set of keys;    *)
(*  - a Python list is a sequence;                                         *)
(*  - str(uuid.uuid4()) is a natural number never handed out before;       *)
(*  - an aware datetime is a record of its wall-clock fields and the name  *)
(*    of its tzinfo; day 0 is 2024-06-01;                                  *)
(*  - a float that is the quotient of two integers is the exact fraction   *)
(*    [num, den]; for the list lengths modelled the IEEE quotient compares *)
(*    to 1.0 and to 0.5 exactly as the fraction does.                      *)
(***************************************************************************)
EXTENDS Integers, Sequences, FiniteSets, TLC

VARIABLES
    sessions,   \* main.py `sessions`: session id -> list of timezone dicts
    nextUid,    \* number of uuid4 values minted so far
    lastOp,     \* the request handled by the last step (history)
    before,     \* get_session_timezones() as it was before that request
    response,   \* what the handler of that request returned
    call,       \* pure-function harness: the call being evaluated
    ret         \* pure-function harness: what the call returned

vars == <<sessions, nextUid, lastOp, before, response, call, ret>>

storeVars == <<sessions, nextUid, lastOp, before, response>>
fnVars == <<call, ret>>

----------------------------------------------------------------------------
(* Bounds of the model *)

\* how many entry ids may be minted in one behaviour
MaxUid == 3

----------------------------------------------------------------------------
(* Timezone Catalog: timezones.py COMMON_TIMEZONES *)

COMMON_TIMEZONES ==
    << <<"America/New_York", "New York (EST/EDT)">>,
       <<"America/Chicago", "Chicago (CST/CDT)">>,
       <<"America/Denver", "Denver (MST/MDT)">>,
       <<"America/Los_Angeles", "Los Angeles (PST/PDT)">>,
       <<"America/Phoenix", "Phoenix (MST)">>,
       <<"America/Anchorage", "Anchorage (AKST/AKDT)">>,
       <<"Pacific/Honolulu", "Honolulu (HST)">>,
       <<"America/Toronto", "Toronto (EST/EDT)">>,
       <<"America/Vancouver", "Vancouver (PST/PDT)">>,
       <<"America/Mexico_City", "Mexico City (CST/CDT)">>,
       <<"America/Sao_Paulo", "São Paulo (BRT)">>,
       <<"America/Buenos_Aires", "Buenos Aires (ART)">>,
       <<"America/Santiago", "Santiago (CLT)">>,
       <<"Europe/London", "London (GMT/BST)">>,
       <<"Europe/Paris", "Paris (CET/CEST)">>,
       <<"Europe/Berlin", "Berlin (CET/CEST)">>,
       <<"Europe/Rome", "Rome (CET/CEST)">>,
       <<"Europe/Madrid", "Madrid (CET/CEST)">>,
       <<"Europe/Amsterdam", "Amsterdam (CET/CEST)">>,
       <<"Europe/Brussels", "Brussels (CET/CEST)">>,
       <<"Europe/Vienna", "Vienna (CET/CEST)">>,
       <<"Europe/Stockholm", "Stockholm (CET/CEST)">>,
       <<"Europe/Warsaw", "Warsaw (CET/CEST)">>,
       <<"Europe/Moscow", "Moscow (MSK)">>,
       <<"Europe/Istanbul", "Istanbul (TRT)">>,
       <<"Europe/Athens", "Athens (EET/EEST)">>,
       <<"Africa/Cairo", "Cairo (EET)">>,
       <<"Africa/Johannesburg", "Johannesburg (SAST)">>,
       <<"Africa/Lagos", "Lagos (WAT)">>,
       <<"Africa/Nairobi", "Nairobi (EAT)">>,
       <<"Asia/Dubai", "Dubai (GST)">>,
       <<"Asia/Karachi", "Karachi (PKT)">>,
       <<"Asia/Kolkata", "Mumbai/Delhi (IST)">>,
       <<"Asia/Bangkok", "Bangkok (ICT)">>,
       <<"Asia/Singapore", "Singapore (SGT)">>,
       <<"Asia/Hong_Kong", "Hong Kong (HKT)">>,
       <<"Asia/Shanghai", "Shanghai (CST)">>,
       <<"Asia/Tokyo", "Tokyo (JST)">>,
       <<"Asia/Seoul", "Seoul (KST)">>,
       <<"Asia/Taipei", "Taipei (CST)">>,
       <<"Asia/Jakarta", "Jakarta (WIB)">>,
       <<"Asia/Manila", "Manila (PST)">>,
       <<"Australia/Perth", "Perth (AWST)">>,
       <<"Australia/Adelaide", "Adelaide (ACST/ACDT)">>,
       <<"Australia/Brisbane", "Brisbane (AEST)">>,
       <<"Australia/Sydney", "Sydney (AEST/AEDT)">>,
       <<"Australia/Melbourne", "Melbourne (AEST/AEDT)">>,
       <<"Pacific/Auckland", "Auckland (NZST/NZDT)">>,
       <<"Pacific/Fiji", "Fiji (FJT)">> >>

get_common_timezones == COMMON_TIMEZONES

\* Python's None where a string is expected, and the empty string: both falsy
None == ""

\* format_timezone_display: the label of tz_id, tz_id itself when not listed
format_timezone_display(tz_id) ==
    LET hits == {i \in 1..Len(COMMON_TIMEZONES) : COMMON_TIMEZONES[i][1] = tz_id}
    IN  IF hits = {} THEN tz_id
        ELSE COMMON_TIMEZONES[CHOOSE i \in hits : \A j \in hits : i <= j][2]

----------------------------------------------------------------------------
(* Selection Store: main.py *)

get_session_id == "default"

\* sessions.get(session_id, [])
get_session_timezones ==
    IF get_session_id \in DOMAIN sessions THEN sessions[get_session_id] ELSE <<>>

\* the dict `sessions` with key k bound to list v
SetKey(d, k, v) == [x \in (DOMAIN d) \cup {k} |-> IF x = k THEN v ELSE d[x]]

\* add_timezone_to_session without its "already exists" loop
AddNoCheck(s, tz_id, tz_name, uid) ==
    LET s1 == IF get_session_id \in DOMAIN s THEN s ELSE SetKey(s, get_session_id, <<>>)
    IN  SetKey(s1, get_session_id,
               Append(s1[get_session_id],
                      [id |-> tz_id, name |-> tz_name,
                       preferred_start |-> 9, preferred_end |-> 17, uid |-> uid]))

\* add_timezone_to_session inserting at the front of the list
AddPrepends(s, tz_id, tz_name, uid) ==
    LET s1 == IF get_session_id \in DOMAIN s THEN s ELSE SetKey(s, get_session_id, <<>>)
        l  == s1[get_session_id]
    IN  IF \E i \in 1..Len(l) : l[i].id = tz_id
        THEN s1
        ELSE SetKey(s1, get_session_id,
                    <<[id |-> tz_id, name |-> tz_name,
                       preferred_start |-> 9, preferred_end |-> 17,
                       uid |-> uid]>> \o l)

\* add_timezone_to_session numbering the new dict by its position instead of
\* minting an id
AddUidFromLength(s, tz_id, tz_name, uid) ==
    LET s1 == IF get_session_id \in DOMAIN s THEN s ELSE SetKey(s, get_session_id, <<>>)
        l  == s1[get_session_id]
    IN  IF \E i \in 1..Len(l) : l[i].id = tz_id
        THEN s1
        ELSE SetKey(s1, get_session_id,
                    Append(l, [id |-> tz_id, name |-> tz_name,
                               preferred_start |-> 9, preferred_end |-> 17,
                               uid |-> Len(l) + 1]))

\* add_timezone_to_session comparing the display name, not the id, with tz_id
AddChecksName(s, tz_id, tz_name, uid) ==
    LET s1 == IF get_session_id \in DOMAIN s THEN s ELSE SetKey(s, get_session_id, <<>>)
        l  == s1[get_session_id]
    IN  IF \E i \in 1..Len(l) : l[i].name = tz_id
        THEN s1
        ELSE SetKey(s1, get_session_id,
                    Append(l, [id |-> tz_id, name |-> tz_name,
                               preferred_start |-> 9, preferred_end |-> 17,
                               uid |-> uid]))

\* add_timezone_to_session: the value of `sessions` after the call; uid is the
\* string uuid4 would return if the call reaches the append
add_timezone_to_session(s, tz_id, tz_name, uid) ==
    LET s1 == IF get_session_id \in DOMAIN s THEN s ELSE SetKey(s, get_session_id, <<>>)
        l  == s1[get_session_id]
    IN  IF \E i \in 1..Len(l) : l[i].id = tz_id
        THEN s1
        ELSE SetKey(s1, get_session_id,
                    Append(l, [id |-> tz_id, name |-> tz_name,
                               preferred_start |-> 9, preferred_end |-> 17,
                               uid |-> uid]))

\* the list comprehension [tz for tz in l if tz["uid"] != uid]
RECURSIVE FilterOut(_, _)
FilterOut(l, uid) ==
    IF l = <<>> THEN <<>>
    ELSE IF Head(l).uid # uid THEN <<Head(l)>> \o FilterOut(Tail(l), uid)
         ELSE FilterOut(Tail(l), uid)

\* remove_timezone_from_session with the comparison inverted
RemoveKeepsMatch(s, uid) ==
    IF get_session_id \in DOMAIN s
    THEN SetKey(s, get_session_id,
                SelectSeq(s[get_session_id], LAMBDA tz : tz.uid = uid))
    ELSE s

\* remove_timezone_from_session dropping the last entry when none matches
RemoveLastWhenAbsent(s, uid) ==
    IF get_session_id \in DOMAIN s
    THEN LET l == s[get_session_id]
         IN  IF (\A i \in 1..Len(l) : l[i].uid # uid) /\ l # <<>>
             THEN SetKey(s, get_session_id, SubSeq(l, 1, Len(l) - 1))
             ELSE SetKey(s, get_session_id, FilterOut(l, uid))
    ELSE s

\* remove_timezone_from_session: the value of `sessions` after the call
remove_timezone_from_session(s, uid) ==
    IF get_session_id \in DOMAIN s
    THEN SetKey(s, get_session_id, FilterOut(s[get_session_id], uid))
    ELSE s

\* the for loop of update_timezone_hours over list l from index i on:
\* the first dict whose uid matches is mutated, then `break`
RECURSIVE UpdateFrom(_, _, _, _, _)
UpdateFrom(l, i, uid, start, end) ==
    IF i > Len(l) THEN l
    ELSE IF l[i].uid = uid
         THEN [l EXCEPT ![i].preferred_start = start, ![i].preferred_end = end]
         ELSE UpdateFrom(l, i + 1, uid, start, end)

\* update_timezone_hours re-inserting the updated dict at the end
UpdateMovesToEnd(s, uid, start, end) ==
    IF get_session_id \in DOMAIN s
    THEN LET l == s[get_session_id]
             hit == SelectSeq(l, LAMBDA tz : tz.uid = uid)
         IN  SetKey(s, get_session_id,
                    FilterOut(l, uid) \o
                    [i \in 1..Len(hit) |->
                        [hit[i] EXCEPT !.preferred_start = start,
                                       !.preferred_end = end]])
    ELSE s

\* update_timezone_hours: the value of `sessions` after the call
update_timezone_hours(s, uid, start, end) ==
    IF get_session_id \in DOMAIN s
    THEN SetKey(s, get_session_id, UpdateFrom(s[get_session_id], 1, uid, start, end))
    ELSE s

----------------------------------------------------------------------------
(* Time Conversion: datetime and zoneinfo as timezones.py uses them *)

\* UTC offset, in minutes, that the timezone database gives each zone it is
\* asked about here, on the days modelled (June 2024: daylight time in Los
\* Angeles and London).  An identifier outside the DOMAIN is one ZoneInfo()
\* cannot resolve.
utcoffset ==
    [z \in {"UTC", "America/Los_Angeles", "Europe/London", "Asia/Kolkata",
            "Asia/Tokyo"} |->
        CASE z = "UTC" -> 0
          [] z = "America/Los_Angeles" -> -420
          [] z = "Europe/London" -> 60
          [] z = "Asia/Kolkata" -> 330
          [] z = "Asia/Tokyo" -> 540]

\* ZoneInfo(tz_id) returns (TRUE) or raises ZoneInfoNotFoundError (FALSE)
ZoneInfo(tz_id) == tz_id \in DOMAIN utcoffset

\* datetime(...): an aware datetime; day counts calendar days from 2024-06-01
datetime(day, hour, minute, second, microsecond, tzinfo) ==
    [day |-> day, hour |-> hour, minute |-> minute, second |-> second,
     microsecond |-> microsecond, tzinfo |-> tzinfo]

\* the instant a datetime denotes: minutes since 2024-06-01T00:00Z (seconds
\* and microseconds are carried by the datetime itself, offsets are whole
\* minutes)
Timestamp(dt) == (dt.day * 24 + dt.hour) * 60 + dt.minute - utcoffset[dt.tzinfo]

\* dt.astimezone(ZoneInfo(tz_id)) for a resolvable tz_id
astimezone(dt, tz_id) ==
    LET t == Timestamp(dt) + utcoffset[tz_id]
    IN  datetime(t \div 1440, (t % 1440) \div 60, t % 60,
                 dt.second, dt.microsecond, tz_id)

----------------------------------------------------------------------------
(* Preferred-Hours Predicate: timezones.py *)

\* is_time_in_preferred_hours with the end hour included
InWindowInclusiveEnd(dt, preferred_start, preferred_end) ==
    LET hour == dt.hour
    IN  IF preferred_end < preferred_start
        THEN hour >= preferred_start \/ hour < preferred_end
        ELSE preferred_start <= hour /\ hour <= preferred_end

\* is_time_in_preferred_hours
is_time_in_preferred_hours(dt, preferred_start, preferred_end) ==
    LET hour == dt.hour
    IN  IF preferred_end < preferred_start
        THEN hour >= preferred_start \/ hour < preferred_end
        ELSE preferred_start <= hour /\ hour < preferred_end

----------------------------------------------------------------------------
(* Viability Scorer: timezones.py *)

\* what a call does: return a value or raise an exception
Return(v) == [kind |-> "return", value |-> v]
Raise(exc) == [kind |-> "raise", exc |-> exc]

\* a float that is a ratio of integers, den > 0
Float(num, den) == [num |-> num, den |-> den]
FloatEq(x, y) == x.num * y.den = y.num * x.den
FloatGe(x, y) == x.num * y.den >= y.num * x.den

\* a / b on ints
TrueDiv(a, b) == IF b = 0 THEN Raise("ZeroDivisionError") ELSE Return(Float(a, b))

\* d.get(k, default)
DictGet(d, k, default) == IF k \in DOMAIN d THEN d[k] ELSE default

\* the for loop of calculate_viability_score skipping an entry whose zone
\* cannot be resolved
RECURSIVE CountSkipsUnknown(_, _, _, _)
CountSkipsUnknown(dt, timezones_config, i, in_preferred_count) ==
    IF i > Len(timezones_config) THEN Return(in_preferred_count)
    ELSE LET tz_config == timezones_config[i]
             tz_id == tz_config.id
             preferred_start == DictGet(tz_config, "preferred_start", 9)
             preferred_end == DictGet(tz_config, "preferred_end", 17)
         IN  IF ~ZoneInfo(tz_id)
             THEN CountSkipsUnknown(dt, timezones_config, i + 1,
                                    in_preferred_count)
             ELSE LET local_dt == astimezone(dt, tz_id)
                  IN  CountSkipsUnknown(dt, timezones_config, i + 1,
                        IF is_time_in_preferred_hours(local_dt, preferred_start,
                                                      preferred_end)
                        THEN in_preferred_count + 1
                        ELSE in_preferred_count)

\* the for loop of calculate_viability_score from index i on, count so far:
\* the final in_preferred_count, or the exception ZoneInfo raised
RECURSIVE CountFrom(_, _, _, _)
CountFrom(dt, timezones_config, i, in_preferred_count) ==
    IF i > Len(timezones_config) THEN Return(in_preferred_count)
    ELSE LET tz_config == timezones_config[i]
             tz_id == tz_config.id
             preferred_start == DictGet(tz_config, "preferred_start", 9)
             preferred_end == DictGet(tz_config, "preferred_end", 17)
         IN  IF ~ZoneInfo(tz_id) THEN Raise("ZoneInfoNotFoundError")
             ELSE LET local_dt == astimezone(dt, tz_id)
                  IN  CountFrom(dt, timezones_config, i + 1,
                        IF is_time_in_preferred_hours(local_dt, preferred_start,
                                                      preferred_end)
                        THEN in_preferred_count + 1
                        ELSE in_preferred_count)

\* the color class with a score of exactly 0.5 classed red
ColorHalfIsRed(score) ==
    IF FloatEq(score, Float(1, 1)) THEN "green"
    ELSE IF score.num * 2 > score.den THEN "yellow"
    ELSE "red"

\* the color class of a score
ColorClass(score) ==
    IF FloatEq(score, Float(1, 1)) THEN "green"
    ELSE IF FloatGe(score, Float(1, 2)) THEN "yellow"
    ELSE "red"

\* the body of calculate_viability_score after the empty-list guard
ScoreBody(dt, timezones_config) ==
    LET total_count == Len(timezones_config)
        counted == CountFrom(dt, timezones_config, 1, 0)
    IN  IF counted.kind = "raise" THEN counted
        ELSE LET score == TrueDiv(counted.value, total_count)
             IN  IF score.kind = "raise" THEN score
                 ELSE Return(<<score.value, ColorClass(score.value)>>)

\* calculate_viability_score without the empty-list guard
ScoreNoEmptyGuard(dt, timezones_config) == ScoreBody(dt, timezones_config)

\* calculate_viability_score
calculate_viability_score(dt, timezones_config) ==
    IF timezones_config = <<>>
    THEN Return(<<Float(0, 1), "red">>)
    ELSE ScoreBody(dt, timezones_config)

----------------------------------------------------------------------------
(* Slot Generator: timezones.py *)

\* base_date = None
NoDate == [tzinfo |-> "None"]

\* generate_24hour_slots keeping the minute of base_date
SlotsKeepMinute(base_date, now) ==
    LET base == IF base_date = NoDate THEN now ELSE base_date
        start == [base EXCEPT !.hour = 0, !.second = 0, !.microsecond = 0]
    IN  [i \in 1..24 |-> [start EXCEPT !.hour = i - 1]]

\* generate_24hour_slots; now is what datetime.now(ZoneInfo("UTC")) reads
generate_24hour_slots(base_date, now) ==
    LET base == IF base_date = NoDate THEN now ELSE base_date
        start == [base EXCEPT !.hour = 0, !.minute = 0, !.second = 0,
                              !.microsecond = 0]
    IN  [i \in 1..24 |-> [start EXCEPT !.hour = i - 1]]

----------------------------------------------------------------------------
(* Request inputs *)

\* the `timezone` form field: catalog identifiers, one identifier the catalog
\* does not list, and the empty field
TimezoneInputs ==
    {"Europe/London", "America/Los_Angeles", "Asia/Kolkata", "Mars/Olympus", None}

\* the {uid} path parameter: every id that may ever be minted, and 0, which
\* never is
UidInputs == 0..MaxUid

\* the start/end query parameters: the default, a wrapping window, an empty
\* window and a pair outside 0..23 (the handler takes any int)
WindowInputs == {<<9, 17>>, <<22, 6>>, <<12, 12>>, <<24, -1>>}

NoOp == [op |-> "none", tz |-> None, uid |-> 0, start |-> 0, end |-> 0,
         again |-> FALSE]

Request(op, tz, uid, start, end) ==
    [op |-> op, tz |-> tz, uid |-> uid, start |-> start, end |-> end,
     again |-> (lastOp.op = op /\ lastOp.tz = tz /\ lastOp.uid = uid
                /\ lastOp.start = start /\ lastOp.end = end)]

\* the hour query parameter of /grid-detail: hours that put the local hour of
\* the zones added on, inside and outside the ends of the windows above, and
\* one value datetime.replace rejects
HourInputs == {0, 5, 8, 16, 21, 22, 24}

\* what datetime.now(ZoneInfo("UTC")) reads while a view is rendered: some
\* moment of each day modelled
ClockInputs == {datetime(d, 5 + 9 * d, 30, 59, 999999, "UTC") : d \in 0..1}

\* a request that only reads the store
ViewRequest(op) ==
    [op |-> op, tz |-> None, uid |-> 0, start |-> 0, end |-> 0, again |-> FALSE]

----------------------------------------------------------------------------
(* Request handlers: main.py *)

\* render_timezone_list: one card per entry, in list order (the card's clock
\* text is left out)
render_timezone_list(timezones) ==
    [view |-> "timezone_list",
     cards |-> [i \in 1..Len(timezones) |->
                  [name |-> timezones[i].name, uid |-> timezones[i].uid,
                   preferred_start |-> timezones[i].preferred_start,
                   preferred_end |-> timezones[i].preferred_end]]]

\* tz_config of grid_view built without the stored windows
GridConfigDefaults(timezones) ==
    [i \in 1..Len(timezones) |-> [id |-> timezones[i].id]]

\* tz_config of grid_view
GridConfig(timezones) ==
    [i \in 1..Len(timezones) |->
        [id |-> timezones[i].id,
         preferred_start |-> timezones[i].preferred_start,
         preferred_end |-> timezones[i].preferred_end]]

\* the loop of grid_view over slots from index k on, elements so far: the list
\* of time slot elements, or the exception the scorer raised
RECURSIVE GridElementsFrom(_, _, _, _)
GridElementsFrom(slots, tz_config, k, time_slot_elements) ==
    IF k > Len(slots) THEN Return(time_slot_elements)
    ELSE LET scored == calculate_viability_score(slots[k], tz_config)
         IN  IF scored.kind = "raise" THEN scored
             ELSE LET score == scored.value[1]
                      color_class == scored.value[2]
                  IN  GridElementsFrom(slots, tz_config, k + 1,
                        Append(time_slot_elements,
                               [hour_24 |-> slots[k].hour,
                                score |-> score,
                                color_class |-> color_class,
                                \* int(score * 100)
                                percentage |-> (score.num * 100) \div score.den]))

\* the body of grid_view for a non-empty store: base_time is the clock reading
GridView(timezones, base_time) ==
    LET slots == generate_24hour_slots(base_time, base_time)
        tz_config == GridConfig(timezones)
        elements == GridElementsFrom(slots, tz_config, 1, <<>>)
    IN  IF elements.kind = "raise" THEN elements
        ELSE Return([view |-> "grid", base_time |-> base_time,
                     time_slot_elements |-> elements.value])

\* GET /grid
grid_view(now) ==
    /\ lastOp' = ViewRequest("grid")
    /\ before' = get_session_timezones
    /\ response' = IF get_session_timezones = <<>>
                   THEN Return([view |-> "grid_empty"])
                   ELSE GridView(get_session_timezones, now)
    /\ UNCHANGED <<sessions, nextUid>>
    /\ UNCHANGED fnVars

\* the inline window test of grid_detail with the end hour included
DetailInclusiveEnd(local_hour, preferred_start, preferred_end) ==
    IF preferred_end < preferred_start
    THEN local_hour >= preferred_start \/ local_hour < preferred_end
    ELSE preferred_start <= local_hour /\ local_hour <= preferred_end

\* the inline window test of grid_detail
DetailInHours(local_hour, preferred_start, preferred_end) ==
    IF preferred_end < preferred_start
    THEN local_hour >= preferred_start \/ local_hour < preferred_end
    ELSE preferred_start <= local_hour /\ local_hour < preferred_end

\* the body of grid_detail for a non-empty store; datetime.replace raises
\* ValueError for an hour outside 0..23
GridDetail(timezones, hour, now) ==
    IF hour \notin 0..23 THEN Raise("ValueError")
    ELSE LET base_time == [now EXCEPT !.hour = hour, !.minute = 0, !.second = 0,
                                      !.microsecond = 0]
         IN  Return([view |-> "grid_detail", hour |-> hour,
                     base_time |-> base_time,
                     rows |-> [i \in 1..Len(timezones) |->
                        LET tz == timezones[i]
                            local_time == astimezone(base_time, tz.id)
                            local_hour == local_time.hour
                        IN  [name |-> tz.name,
                             local_day |-> local_time.day,
                             local_hour |-> local_hour,
                             in_hours |-> DetailInHours(local_hour,
                                              tz.preferred_start,
                                              tz.preferred_end)]]])

\* GET /grid-detail
grid_detail(hour, now) ==
    /\ lastOp' = ViewRequest("grid_detail")
    /\ before' = get_session_timezones
    /\ response' = IF get_session_timezones = <<>>
                   THEN Return([view |-> "grid_detail_empty"])
                   ELSE GridDetail(get_session_timezones, hour, now)
    /\ UNCHANGED <<sessions, nextUid>>
    /\ UNCHANGED fnVars

\* POST /add-timezone
add_timezone(timezone) ==
    LET hits == {i \in 1..Len(get_common_timezones) :
                    get_common_timezones[i][1] = timezone}
        tz_name == IF hits = {} THEN None
                   ELSE get_common_timezones[CHOOSE i \in hits :
                                                \A j \in hits : i <= j][2]
        after == IF timezone = None THEN sessions
                 ELSE IF tz_name # None
                      THEN add_timezone_to_session(sessions, timezone, tz_name,
                                                   nextUid + 1)
                      ELSE sessions
        \* uuid4 was called iff a dict was appended
        minted == /\ get_session_id \in DOMAIN after
                  /\ Len(after[get_session_id]) > Len(get_session_timezones)
    IN  /\ minted => nextUid < MaxUid
        /\ lastOp' = Request("add", timezone, 0, 0, 0)
        /\ before' = get_session_timezones
        /\ sessions' = after
        /\ nextUid' = IF minted THEN nextUid + 1 ELSE nextUid
        /\ response' = Return(render_timezone_list(
                            IF get_session_id \in DOMAIN after
                            THEN after[get_session_id] ELSE <<>>))
        /\ UNCHANGED fnVars

\* DELETE /remove-timezone/{uid}
remove_timezone(uid) ==
    /\ lastOp' = Request("remove", None, uid, 0, 0)
    /\ before' = get_session_timezones
    /\ sessions' = remove_timezone_from_session(sessions, uid)
    /\ response' = Return(render_timezone_list(get_session_timezones'))
    /\ UNCHANGED nextUid
    /\ UNCHANGED fnVars

\* POST /update-hours/{uid}
update_hours(uid, start, end) ==
    /\ lastOp' = Request("update", None, uid, start, end)
    /\ before' = get_session_timezones
    /\ sessions' = update_timezone_hours(sessions, uid, start, end)
    /\ response' = Return(render_timezone_list(get_session_timezones'))
    /\ UNCHANGED nextUid
    /\ UNCHANGED fnVars

NoCall == [fn |-> "none"]
NoRet == [kind |-> "none"]

Init ==
    /\ sessions = [k \in {} |-> <<>>]
    /\ nextUid = 0
    /\ lastOp = NoOp
    /\ before = <<>>
    /\ response = NoRet
    /\ call = NoCall
    /\ ret = NoRet

AddStep == \E timezone \in TimezoneInputs : add_timezone(timezone)
RemoveStep == \E uid \in UidInputs : remove_timezone(uid)
UpdateStep == \E uid \in UidInputs : \E w \in WindowInputs : update_hours(uid, w[1], w[2])

Next == AddStep \/ RemoveStep \/ UpdateStep

Spec == Init /\ [][Next]_vars

\* The store with its two read-only views.  The views change nothing the
\* mutating handlers read, so they are explored in a specification of their
\* own, over the catalog zones and the windows that are not the default.
ViewsAddStep ==
    \E timezone \in TimezoneInputs \cap {COMMON_TIMEZONES[i][1] :
                                            i \in 1..Len(COMMON_TIMEZONES)} :
        add_timezone(timezone)
ViewsUpdateStep ==
    \E uid \in UidInputs : \E w \in WindowInputs \ {<<9, 17>>, <<24, -1>>} :
        update_hours(uid, w[1], w[2])
GridStep == \E now \in ClockInputs : grid_view(now)
DetailStep == \E hour \in HourInputs : \E now \in ClockInputs : grid_detail(hour, now)

NextViews == ViewsAddStep \/ RemoveStep \/ ViewsUpdateStep \/ GridStep \/ DetailStep

SpecViews == Init /\ [][NextViews]_vars

----------------------------------------------------------------------------
(* The pure functions, each applied to inputs drawn from bounded sets *)

\* longest timezones_config passed to the scorer
MaxConfig == 3

\* last calendar day (counted from 2024-06-01) a reference instant may fall on
MaxDay == 1

StoreIdle ==
    /\ sessions = [k \in {} |-> <<>>]
    /\ nextUid = 0
    /\ lastOp = NoOp
    /\ before = <<>>
    /\ response = NoRet

\* is_time_in_preferred_hours over every hour and every window of 0..23
WindowCalls ==
    {[fn |-> "is_time_in_preferred_hours",
      dt |-> datetime(0, h, 0, 0, 0, "UTC"),
      preferred_start |-> s, preferred_end |-> e] :
        h \in 0..23, s \in 0..23, e \in 0..23}

InitWindow == StoreIdle /\ call \in WindowCalls /\ ret = NoRet

EvalWindow ==
    /\ call.fn = "is_time_in_preferred_hours"
    /\ ret = NoRet
    /\ ret' = Return(is_time_in_preferred_hours(call.dt, call.preferred_start,
                                                call.preferred_end))
    /\ UNCHANGED <<call, storeVars>>

SpecWindow == InitWindow /\ [][EvalWindow]_vars

\* entries of a timezones_config: resolvable zones and one that is not, a
\* plain and a wrapping window, and a dict with only the "id" key
ConfigEntryInputs ==
    {[id |-> z, preferred_start |-> w[1], preferred_end |-> w[2]] :
        z \in {"UTC", "America/Los_Angeles", "Asia/Kolkata", "Mars/Olympus"},
        w \in {<<9, 17>>, <<22, 6>>}}
    \cup {[id |-> "UTC"]}

SeqsUpTo(S, n) == UNION {[1..k -> S] : k \in 0..n}

\* the instants scored: every hour of 2024-06-01 in UTC, and two instants
\* carried in another zone
ScoreInstants ==
    {datetime(0, h, 0, 0, 0, "UTC") : h \in 0..23}
    \cup {datetime(0, 9, 30, 0, 0, "Asia/Kolkata"),
          datetime(0, 23, 0, 0, 0, "Europe/London")}

ScoreCalls ==
    {[fn |-> "calculate_viability_score", dt |-> d, timezones_config |-> c] :
        d \in ScoreInstants, c \in SeqsUpTo(ConfigEntryInputs, MaxConfig)}

InitScore == StoreIdle /\ call \in ScoreCalls /\ ret = NoRet

EvalScore ==
    /\ call.fn = "calculate_viability_score"
    /\ ret = NoRet
    /\ ret' = calculate_viability_score(call.dt, call.timezones_config)
    /\ UNCHANGED <<call, storeVars>>

SpecScore == InitScore /\ [][EvalScore]_vars

\* reference instants: any time of day on the days modelled, in any zone
ReferenceInstants ==
    {datetime(d, h, m, sec, us, z) :
        d \in 0..MaxDay, h \in 0..23, m \in {0, 30}, sec \in {0, 59},
        us \in {0, 999999}, z \in DOMAIN utcoffset}

\* what datetime.now(ZoneInfo("UTC")) may read
NowInputs == {dt \in ReferenceInstants : dt.tzinfo = "UTC"}

SlotCalls ==
    {[fn |-> "generate_24hour_slots", base_date |-> b,
      now |-> datetime(0, 12, 0, 0, 0, "UTC")] : b \in ReferenceInstants}
    \cup {[fn |-> "generate_24hour_slots", base_date |-> NoDate, now |-> n] :
            n \in NowInputs}

InitSlots == StoreIdle /\ call \in SlotCalls /\ ret = NoRet

EvalSlots ==
    /\ call.fn = "generate_24hour_slots"
    /\ ret = NoRet
    /\ ret' = Return(generate_24hour_slots(call.base_date, call.now))
    /\ UNCHANGED <<call, storeVars>>

SpecSlots == InitSlots /\ [][EvalSlots]_vars

----------------------------------------------------------------------------
(* Properties of the Selection Store, checked under Spec *)

Uids(l) == {l[i].uid : i \in 1..Len(l)}
Ids(l) == {l[i].id : i \in 1..Len(l)}
InCatalog(tz) == \E i \in 1..Len(COMMON_TIMEZONES) : COMMON_TIMEZONES[i][1] = tz

\* the last request reached add_timezone_to_session
StoreAddCalled == lastOp.op = "add" /\ InCatalog(lastOp.tz)

\* C1: add is idempotent per timezoneId.  When the same add request is handled
\* twice in a row, the second call leaves the list as the first call left it,
\* the list holds exactly one entry with that timezoneId, and that entry still
\* carries the entryId it had after the first call.
C1_AddTwiceIsNoOp ==
    (StoreAddCalled /\ lastOp.again) =>
        LET l == get_session_timezones
            same == {i \in 1..Len(l) : l[i].id = lastOp.tz}
        IN  /\ l = before
            /\ Cardinality(same) = 1
            /\ \A i \in same : i <= Len(before) /\ before[i].uid = l[i].uid

C1_Witness ==
    /\ StoreAddCalled /\ lastOp.again
    /\ lastOp.tz \in Ids(get_session_timezones)
    /\ Len(get_session_timezones) >= 2

\* C2: remove and updateHours with an entryId that matches no entry leave the
\* ordered entry list exactly as it was.
C2_UnknownIdIsNoOp ==
    (lastOp.op \in {"remove", "update"} /\ lastOp.uid \notin Uids(before)) =>
        get_session_timezones = before

C2_Witness ==
    /\ lastOp.op = "update"
    /\ lastOp.start = 22
    /\ lastOp.uid \notin Uids(before)
    /\ lastOp.uid # 0
    /\ Len(before) >= 2
    /\ get_session_timezones = before

\* the entry add is documented to append for tz
NewEntry(tz, label, uid) ==
    [id |-> tz, name |-> label, preferred_start |-> 9, preferred_end |-> 17,
     uid |-> uid]

\* the list is `before` with one entry for tz appended, labelled `label`, under
\* an entryId no entry of `before` has
AppendedOne(tz, label) ==
    LET l == get_session_timezones
    IN  /\ Len(l) = Len(before) + 1
        /\ SubSeq(l, 1, Len(before)) = before
        /\ l[Len(l)].uid \notin Uids(before)
        /\ l[Len(l)] = NewEntry(tz, label, l[Len(l)].uid)

\* C7 as stated: add of a timezoneId no entry has appends exactly one entry,
\* labelled by the catalog lookup, the identifier itself when the catalog does
\* not list it.
C7_AddAlwaysAppends ==
    (lastOp.op = "add" /\ lastOp.tz # None /\ lastOp.tz \notin Ids(before)) =>
        AppendedOne(lastOp.tz, format_timezone_display(lastOp.tz))

\* C7 as amended: add of a timezoneId that the catalog lists and no entry has
\* appends exactly one entry at the end: that timezoneId, the catalog's label,
\* window 9-17, an entryId no prior entry has, prior entries untouched.  Add of
\* an identifier the catalog does not list (or of an empty one) leaves the
\* store unchanged.
C7_AddAppendsCatalogEntry ==
    (lastOp.op = "add" /\ lastOp.tz \notin Ids(before)) =>
        IF InCatalog(lastOp.tz)
        THEN AppendedOne(lastOp.tz, format_timezone_display(lastOp.tz))
        ELSE get_session_timezones = before

C7_Witness ==
    /\ lastOp.op = "add"
    /\ lastOp.tz = "Asia/Kolkata"
    /\ Len(before) = 2
    /\ Len(get_session_timezones) = 3
    /\ get_session_timezones[3].name = "Mumbai/Delhi (IST)"

\* C8: updateHours of a present entryId sets that entry's window to the given
\* values and changes nothing else: length, order, the entry's position,
\* entryId, timezoneId and label, and every other entry stay as they were.
C8_UpdateChangesOnlyWindow ==
    (lastOp.op = "update" /\ lastOp.uid \in Uids(before)) =>
        LET l == get_session_timezones
        IN  /\ Len(l) = Len(before)
            /\ \A i \in 1..Len(before) :
                 IF before[i].uid = lastOp.uid
                 THEN l[i] = [id |-> before[i].id, name |-> before[i].name,
                              preferred_start |-> lastOp.start,
                              preferred_end |-> lastOp.end,
                              uid |-> before[i].uid]
                 ELSE l[i] = before[i]

C8_Witness ==
    /\ lastOp.op = "update"
    /\ Len(before) = 3
    /\ before[2].uid = lastOp.uid
    /\ lastOp.start = 22 /\ lastOp.end = 6
    /\ before[2].preferred_start = 12
    /\ get_session_timezones[2].preferred_start = 22
    /\ get_session_timezones[2].preferred_end = 6

\* C9: remove of a present entryId leaves no entry with that entryId and keeps
\* every other entry unchanged and in the same relative order; removing the
\* same entryId once more changes nothing.
C9_RemoveDropsExactlyThatEntry ==
    /\ (lastOp.op = "remove" /\ lastOp.uid \in Uids(before)) =>
          LET l == get_session_timezones
          IN  /\ lastOp.uid \notin Uids(l)
              /\ \E k \in 1..Len(before) :
                    /\ before[k].uid = lastOp.uid
                    /\ l = SubSeq(before, 1, k - 1) \o SubSeq(before, k + 1, Len(before))
    /\ (lastOp.op = "remove" /\ lastOp.again) => get_session_timezones = before

C9_Witness ==
    /\ lastOp.op = "remove"
    /\ Len(before) = 3
    /\ before[2].uid = lastOp.uid
    /\ Len(get_session_timezones) = 2
    /\ get_session_timezones = <<before[1], before[3]>>

\* C10: every entry's preferred start and end hour is an integer in 0..23, in
\* every reachable state of the store.
C10_HoursInRange ==
    \A i \in 1..Len(get_session_timezones) :
        /\ get_session_timezones[i].preferred_start \in 0..23
        /\ get_session_timezones[i].preferred_end \in 0..23

----------------------------------------------------------------------------
(* Properties of the pure functions *)

\* C3: for hour h, start s, end e in 0..23 the predicate is: when s < e, true
\* iff s <= h < e; when s > e, true iff h >= s or h < e; when s = e, false.
\* Checked under SpecWindow.
C3_PredicateByCases ==
    (call.fn = "is_time_in_preferred_hours" /\ ret # NoRet) =>
        LET h == call.dt.hour
            s == call.preferred_start
            e == call.preferred_end
        IN  /\ ret.kind = "return"
            /\ s < e => (ret.value <=> (s <= h /\ h < e))
            /\ s > e => (ret.value <=> (h >= s \/ h < e))
            /\ s = e => ret.value = FALSE

C3_Witness ==
    /\ call.fn = "is_time_in_preferred_hours"
    /\ call.preferred_start = 22 /\ call.preferred_end = 6
    /\ call.dt.hour = 23
    /\ ret = Return(TRUE)

\* membership in a window as the specification words it
InWindow(h, s, e) ==
    IF s < e THEN s <= h /\ h < e
    ELSE IF s > e THEN h >= s \/ h < e
    ELSE FALSE

\* the entries of the scored config whose localized hour is inside their window
Matches ==
    LET c == call.timezones_config
    IN  {i \in 1..Len(c) :
            InWindow(astimezone(call.dt, c[i].id).hour,
                     IF "preferred_start" \in DOMAIN c[i]
                     THEN c[i].preferred_start ELSE 9,
                     IF "preferred_end" \in DOMAIN c[i]
                     THEN c[i].preferred_end ELSE 17)}

AllResolvable ==
    \A i \in 1..Len(call.timezones_config) :
        call.timezones_config[i].id \in DOMAIN utcoffset

\* C4: for a non-empty sequence of N entries (every zone resolvable) the score
\* is matches/N; the tier is green iff matches = N (score 1.0), yellow iff
\* 0.5 <= score < 1.0, with exactly 0.5 yellow, and red iff score < 0.5.
\* Checked under SpecScore.
C4_ScoreAndTier ==
    (call.fn = "calculate_viability_score" /\ ret # NoRet
        /\ call.timezones_config # <<>> /\ AllResolvable) =>
        LET N == Len(call.timezones_config)
            m == Cardinality(Matches)
        IN  /\ ret.kind = "return"
            /\ ret.value[1].den > 0
            /\ ret.value[1].num * N = m * ret.value[1].den
            /\ (ret.value[1].num = ret.value[1].den) <=> (m = N)
            /\ (ret.value[2] = "green") <=> (m = N)
            /\ (ret.value[2] = "yellow") <=> (2 * m >= N /\ m < N)
            /\ (ret.value[2] = "red") <=> (2 * m < N)

C4_Witness ==
    /\ call.fn = "calculate_viability_score"
    /\ Len(call.timezones_config) = 2
    /\ AllResolvable
    /\ Cardinality(Matches) = 1
    /\ ret.kind = "return"
    /\ ret.value[2] = "yellow"

\* C5: whenever the scorer returns, its score lies in [0.0, 1.0]; for the empty
\* sequence it returns exactly (0.0, red), and no call ends in a division by
\* zero.  Checked under SpecScore.
C5_ScoreInUnitInterval ==
    (call.fn = "calculate_viability_score" /\ ret # NoRet) =>
        /\ ret.kind = "return" =>
              /\ ret.value[1].den > 0
              /\ 0 <= ret.value[1].num
              /\ ret.value[1].num <= ret.value[1].den
        /\ ret.kind = "raise" => ret.exc # "ZeroDivisionError"
        /\ call.timezones_config = <<>> =>
              /\ ret.kind = "return"
              /\ ret.value[1].num = 0
              /\ ret.value[2] = "red"

C5_Witness ==
    /\ call.fn = "calculate_viability_score"
    /\ call.timezones_config = <<>>
    /\ ret = Return(<<Float(0, 1), "red">>)

\* the reference instant of a slots call
Reference == IF call.base_date = NoDate THEN call.now ELSE call.base_date

\* minute 0 of hour 0 of the UTC calendar date that contains instant dt
UtcMidnight(dt) == (Timestamp(dt) \div 1440) * 1440

\* C6 as stated: 24 instants, each at minute and second 0, each one hour after
\* the previous, the first at hour 0 of the UTC date containing the reference
\* instant, whatever zone the reference instant carries.
C6_SlotsStartAtUtcMidnight ==
    (call.fn = "generate_24hour_slots" /\ ret # NoRet) =>
        LET slots == ret.value
        IN  /\ Len(slots) = 24
            /\ \A i \in 1..24 : slots[i].minute = 0 /\ slots[i].second = 0
            /\ \A i \in 1..23 : Timestamp(slots[i + 1]) = Timestamp(slots[i]) + 60
            /\ Timestamp(slots[1]) = UtcMidnight(Reference)

\* C6 as amended: 24 datetimes in the reference instant's own zone, reading
\* hour 0, 1, ..., 23 at minute and second 0 of the reference instant's own
\* calendar date in that zone; when the reference instant carries UTC they are
\* one hour apart and the first is hour 0 of the UTC date containing it.
\* Checked under SpecSlots.
C6_SlotsOfReferenceLocalDate ==
    (call.fn = "generate_24hour_slots" /\ ret # NoRet) =>
        LET slots == ret.value
        IN  /\ Len(slots) = 24
            /\ \A i \in 1..24 :
                  /\ slots[i].tzinfo = Reference.tzinfo
                  /\ slots[i].day = Reference.day
                  /\ slots[i].hour = i - 1
                  /\ slots[i].minute = 0 /\ slots[i].second = 0
                  /\ slots[i].microsecond = 0
            /\ Reference.tzinfo = "UTC" =>
                  /\ \A i \in 1..23 :
                        Timestamp(slots[i + 1]) = Timestamp(slots[i]) + 60
                  /\ Timestamp(slots[1]) = UtcMidnight(Reference)

C6_Witness ==
    /\ call.fn = "generate_24hour_slots"
    /\ ret # NoRet
    /\ call.base_date # NoDate
    /\ call.base_date.tzinfo = "America/Los_Angeles"
    /\ call.base_date.hour = 23 /\ call.base_date.minute = 30
    /\ Timestamp(ret.value[1]) # UtcMidnight(call.base_date)
    /\ ret.value[24].hour = 23

\* C11: when at least one timezoneId of the scored sequence cannot be resolved
\* by the timezone database, the scorer ends in the unknown-timezone error,
\* which reaches the caller; it returns no (score, tier) pair.  Checked under
\* SpecScore.
C11_UnknownZoneRaises ==
    (call.fn = "calculate_viability_score" /\ ret # NoRet /\ ~AllResolvable) =>
        ret = Raise("ZoneInfoNotFoundError")

C11_Witness ==
    /\ call.fn = "calculate_viability_score"
    /\ Len(call.timezones_config) = 3
    /\ call.timezones_config[1].id = "UTC"
    /\ call.timezones_config[2].id = "America/Los_Angeles"
    /\ call.timezones_config[3].id = "Mars/Olympus"
    /\ call.dt.hour = 16
    /\ ret = Raise("ZoneInfoNotFoundError")

\* the entryIds of list l, in list order
UidSeq(l) == [i \in 1..Len(l) |-> l[i].uid]

\* C12: with minting modelled as returning a value never returned before, no
\* two entries of the store have the same entryId, and no request changes the
\* entryId of an existing entry: an update keeps the sequence of entryIds, a
\* remove only takes the removed entryId out of it, an add only extends it,
\* and every entry that stays keeps its timezoneId under its entryId.
\* Checked under Spec.
C12_EntryIdsUniqueAndStable ==
    LET l == get_session_timezones
    IN  /\ \A i, j \in 1..Len(l) : l[i].uid = l[j].uid => i = j
        /\ lastOp.op = "update" => UidSeq(l) = UidSeq(before)
        /\ lastOp.op = "remove" =>
              UidSeq(l) = SelectSeq(UidSeq(before), LAMBDA u : u # lastOp.uid)
        /\ lastOp.op = "add" =>
              /\ Len(l) >= Len(before)
              /\ SubSeq(UidSeq(l), 1, Len(before)) = UidSeq(before)
        /\ \A i \in 1..Len(l) : \A j \in 1..Len(before) :
              l[i].uid = before[j].uid => l[i].id = before[j].id

C12_Witness ==
    /\ lastOp.op = "add"
    /\ Len(before) = 1
    /\ Len(get_session_timezones) = 2
    /\ UidSeq(before) = <<2>>
    /\ UidSeq(get_session_timezones) = <<2, 3>>

\* C14: in every reachable state of the shared store, whatever sequence of
\* add, remove and update requests was handled (each to completion), no two
\* entries have the same timezoneId.  Checked under Spec.
C14_TimezoneIdsUnique ==
    \A i, j \in 1..Len(get_session_timezones) :
        get_session_timezones[i].id = get_session_timezones[j].id => i = j

C14_Witness ==
    /\ lastOp.op = "add"
    /\ ~lastOp.again
    /\ lastOp.tz \in Ids(before)
    /\ Len(before) = 3
    /\ get_session_timezones = before
    /\ before[1].id = lastOp.tz
    /\ before[1].preferred_start = 22

----------------------------------------------------------------------------
(* Properties of the views, checked under SpecViews *)

\* the entries of the store whose local hour at UTC hour h of day d is inside
\* the window the store holds for them now
InWindowNow(d, h) ==
    LET l == get_session_timezones
    IN  {i \in 1..Len(l) :
            InWindow(astimezone(datetime(d, h, 0, 0, 0, "UTC"), l[i].id).hour,
                     l[i].preferred_start, l[i].preferred_end)}

\* C13: the grid and the drill-down read the window the store holds at the
\* time of the request: every slot's score counts exactly the entries whose
\* local hour is inside their current (possibly updated) window, and every
\* detail row's flag is inWindow of the local hour and the current window; so
\* an entry updated to 22-6 is in-window at local hour 23.
C13_ViewsReadCurrentWindow ==
    LET l == get_session_timezones
    IN  /\ (response.kind = "return" /\ response.value.view = "grid") =>
              LET g == response.value
              IN  /\ Len(g.time_slot_elements) = 24
                  /\ \A k \in 1..24 :
                        /\ g.time_slot_elements[k].score.den = Len(l)
                        /\ g.time_slot_elements[k].score.num =
                              Cardinality(InWindowNow(g.base_time.day, k - 1))
        /\ (response.kind = "return" /\ response.value.view = "grid_detail") =>
              LET v == response.value
              IN  /\ Len(v.rows) = Len(l)
                  /\ \A i \in 1..Len(l) :
                        v.rows[i].in_hours <=>
                            i \in InWindowNow(v.base_time.day, v.hour)

C13_Witness ==
    /\ response.kind = "return"
    /\ response.value.view = "grid_detail"
    /\ response.value.hour = 22
    /\ Len(get_session_timezones) = 2
    /\ get_session_timezones[2].id = "Europe/London"
    /\ get_session_timezones[2].preferred_start = 22
    /\ get_session_timezones[2].preferred_end = 6
    /\ response.value.rows[2].local_hour = 23
    /\ response.value.rows[2].in_hours

\* C15: the drill-down and the grid agree.  For a chosen hour h in 0..23, each
\* row's flag from the inline test of grid_detail equals
\* is_time_in_preferred_hours on slot h of generate_24hour_slots localized to
\* the entry's zone, and the in-window rows over the number of entries is the
\* score grid_view computes for slot h on the same UTC day.
C15_DetailAgreesWithGrid ==
    (response.kind = "return" /\ response.value.view = "grid_detail") =>
        LET l == get_session_timezones
            v == response.value
            ins == {i \in 1..Len(v.rows) : v.rows[i].in_hours}
        IN  \A now \in ClockInputs :
                now.day = v.base_time.day =>
                    LET slot == generate_24hour_slots(now, now)[v.hour + 1]
                        grid == GridView(l, now)
                    IN  /\ \A i \in 1..Len(l) :
                              v.rows[i].in_hours =
                                  is_time_in_preferred_hours(
                                      astimezone(slot, l[i].id),
                                      l[i].preferred_start, l[i].preferred_end)
                        /\ grid.kind = "return"
                        /\ grid.value.time_slot_elements[v.hour + 1].hour_24 = v.hour
                        /\ grid.value.time_slot_elements[v.hour + 1].score
                              = Float(Cardinality(ins), Len(l))

C15_Witness ==
    /\ response.kind = "return"
    /\ response.value.view = "grid_detail"
    /\ response.value.hour = 16
    /\ Len(get_session_timezones) = 3
    /\ Cardinality({i \in 1..3 : response.value.rows[i].in_hours}) = 1
    /\ \E i \in 1..3 : /\ get_session_timezones[i].preferred_end = 17
                       /\ response.value.rows[i].local_hour = 17
                       /\ ~response.value.rows[i].in_hours

=============================================================================
